---------------------------- MODULE Spec2Model ----------------------------
(***************************************************************************)
(* opti-llm: a semantic cache in front of an LLM call.                     *)
(*                                                                         *)
(* The model follows src/src/embedding.ts (LocalEmbedding, and the OptiLLM *)
(* engine that the same file holds from line 56 on) and src/src/qdrant.ts  *)
(* (QdrantCache).  The Qdrant server is the external collaborator: it is   *)
(* modelled by the contract of the three requests the client sends it      *)
(* (search, upsert, delete by filter).                                     *)
(*                                                                         *)
(* Time is Date.now() in milliseconds.  Every await of the code is a place *)
(* where other calls, the sweep and the clock may act, so every await is   *)
(* the boundary between two actions of the model.                          *)
(***************************************************************************)
EXTENDS Integers, Sequences, FiniteSets, TLC

(***************************************************************************)
(* Bounds of the model.                                                    *)
(***************************************************************************)
MaxTicks == 2
MaxWrites == 2
MaxEmbeds == 3

(***************************************************************************)
(* JavaScript 32-bit integer arithmetic (embedding.ts:49-50).  TLC's own   *)
(* integers are 32 bits wide and trap on overflow, so every operator below *)
(* wraps without ever leaving the int32 range.                             *)
(***************************************************************************)
MaxInt32 == 2147483647
MinInt32 == (-MaxInt32) - 1

\* a + b modulo 2^32, as a signed 32-bit integer (a, b int32).
Add32(a, b) ==
    IF a >= 0 /\ b > MaxInt32 - a THEN (a + MinInt32) + (b + MinInt32)
    ELSE IF a < 0 /\ b < MinInt32 - a THEN (a - MinInt32) + (b - MinInt32)
    ELSE a + b

\* a - b modulo 2^32, as a signed 32-bit integer.
Sub32(a, b) ==
    IF b = MinInt32 THEN Add32(Add32(a, MaxInt32), 1) ELSE Add32(a, -b)

\* hash << 5.
Shl5(x) ==
    LET d1 == Add32(x, x)
        d2 == Add32(d1, d1)
        d3 == Add32(d2, d2)
        d4 == Add32(d3, d3)
    IN  Add32(d4, d4)

(***************************************************************************)
(* LocalEmbedding (embedding.ts:23-54).  A text is a sequence of character *)
(* codes (ASCII).                                                          *)
(***************************************************************************)
DefaultDim == 384

\* The loop of simpleHash: hash = ((hash << 5) - hash) + char; hash & hash.
\* The subtraction and the addition are done on doubles and the result is
\* brought back to int32 by the &: the same as wrapping at each step.
RECURSIVE hashLoop(_, _, _)
hashLoop(str, i, hash) ==
    IF i > Len(str) THEN hash
    ELSE hashLoop(str, i + 1, Add32(Sub32(Shl5(hash), hash), str[i]))

\* bucketOf without Math.abs: the remainder has the sign of the hash.
bucketOf_noAbs(token, dim) ==
    LET hash == hashLoop(token, 1, 0)
    IN  IF hash = MinInt32 THEN 0 - (((MaxInt32 % dim) + 1) % dim)
        ELSE IF hash < 0 THEN 0 - ((-hash) % dim)
        ELSE hash % dim

\* simpleHash(token) % dim, with simpleHash returning Math.abs(hash).
\* Math.abs(-2^31) is 2^31, which is MaxInt32 + 1.
bucketOf(token, dim) ==
    LET hash == hashLoop(token, 1, 0)
    IN  IF hash = MinInt32 THEN ((MaxInt32 % dim) + 1) % dim
        ELSE (IF hash < 0 THEN -hash ELSE hash) % dim

\* toLowerCase left out.
toLowerCase_asIs(text) == text

toLowerCase(text) ==
    [i \in 1..Len(text) |-> IF text[i] \in 65..90 THEN text[i] + 32 ELSE text[i]]

\* IsSpace of split(' '): the blank only.
IsSpace_blankOnly(ch) == ch = 32

\* The ASCII characters that \s matches.
IsSpace(ch) == ch \in {9, 10, 11, 12, 13, 32}

\* text.split(/\s+/).filter(Boolean): the maximal runs of non-space characters.
RECURSIVE splitLoop(_, _, _, _)
splitLoop(text, i, cur, acc) ==
    IF i > Len(text)
    THEN (IF cur = <<>> THEN acc ELSE Append(acc, cur))
    ELSE IF IsSpace(text[i])
         THEN splitLoop(text, i + 1, <<>>, IF cur = <<>> THEN acc ELSE Append(acc, cur))
         ELSE splitLoop(text, i + 1, Append(cur, text[i]), acc)

tokensOf(text) == splitLoop(toLowerCase(text), 1, <<>>, <<>>)

\* An array of numbers is held sparsely: its length and its non-zero
\* entries (index -> value, indexes from 0).
\* new Array(384).fill(0), whatever the dimension.
ZeroArray_fixedLength(dim) == [len |-> 384, nz |-> [i \in {} |-> 0]]

\* new Array(dim).fill(0)
ZeroArray(dim) == [len |-> dim, nz |-> [i \in {} |-> 0]]

At(array, i) == IF i \in DOMAIN array.nz THEN array.nz[i] ELSE 0

\* array[i] += 1.  Writing at an index at or past the length makes the
\* array that long.
Increment(array, i) ==
    [len |-> IF i >= array.len THEN i + 1 ELSE array.len,
     nz |-> (i :> (At(array, i) + 1)) @@ array.nz]

\* for (const token of tokens) vector[hash] += 1
RECURSIVE countLoop(_, _, _)
countLoop(vector, tokens, k) ==
    IF k > Len(tokens) THEN vector
    ELSE countLoop(Increment(vector, bucketOf(tokens[k], vector.len)), tokens, k + 1)

\* The sum of a[i] * b[i] over the indexes in S.
RECURSIVE SumProd(_, _, _)
SumProd(a, b, S) ==
    IF S = {} THEN 0
    ELSE LET i == CHOOSE j \in S : TRUE
         IN  At(a, i) * At(b, i) + SumProd(a, b, S \ {i})

\* vector.reduce((sum, val) => sum + val * val, 0)
SumSq(array) == SumProd(array, array, DOMAIN array.nz)

Dot(a, b) == SumProd(a, b, DOMAIN a.nz \cap DOMAIN b.nz)

\* The vector embed returns has real components vector[i] / norm.  It is
\* held as the array of counts and norm2, the square of the norm they are
\* divided by; norm2 = 0 says the counts are returned as they are
\* (norm > 0 ? vector.map(v => v / norm) : vector).
embed(text, dim) ==
    LET tokens == tokensOf(text)
        vector == countLoop(ZeroArray(dim), tokens, 1)
    IN  [num |-> vector, norm2 |-> SumSq(vector)]

VecLen(vec) == vec.num.len

(***************************************************************************)
(* JavaScript values.  An optional property is a field the record does not *)
(* have; a value the producer returns is a tagged JSON value.              *)
(***************************************************************************)
Has(obj, key) == key \in DOMAIN obj

\* obj?.key ?? dflt
OrElse(obj, key, dflt) == IF Has(obj, key) THEN obj[key] ELSE dflt

EmptyObject == [k \in {} |-> 0]

JsString(s) == [type |-> "string", repr |-> s]
JsNumber(s) == [type |-> "number", repr |-> s]

\* JSON.stringify(value): always a string; a string value is quoted, a
\* number is printed.
JSONstringify(value) ==
    JsString(IF value.type = "string" THEN "\"" \o value.repr \o "\"" ELSE value.repr)

(***************************************************************************)
(* The Qdrant collection: a set of points [id, vector, payload].  What the *)
(* server does with the three requests the client sends.                   *)
(***************************************************************************)
\* The cosine similarity of two vectors, as the fraction n / d that is its
\* square (the counts are never negative, so the cosine is not either).
\* A zero vector scores 0.
Score(q, p) ==
    LET dot == Dot(q.num, p.num)
        nq == SumSq(q.num)
        np == SumSq(p.num)
    IN  IF nq = 0 \/ np = 0 THEN [n |-> 0, d |-> 1] ELSE [n |-> dot * dot, d |-> nq * np]

\* score >= pct / 100, for pct >= 0.
ScoreAtLeast(score, pct) == score.n * 10000 >= pct * pct * score.d

ScoreLeq(s1, s2) == s1.n * s2.d <= s2.n * s1.d

\* A filter is {} or {must: [conditions]}; a condition of capture is an
\* exact match on a field of payload.metadata.  A point that lacks the
\* field does not match.
MatchesFilter(point, filter) ==
    \/ ~Has(filter, "must")
    \/ \A i \in DOMAIN filter.must :
          /\ Has(point.payload.metadata, filter.must[i].key)
          /\ point.payload.metadata[filter.must[i].key] = filter.must[i].value

Candidates(pts, searchParams) ==
    {p \in pts :
        /\ (Has(searchParams, "filter") => MatchesFilter(p, searchParams.filter))
        /\ ScoreAtLeast(Score(searchParams.vector, p.vector), searchParams.score_threshold)}

Min(a, b) == IF a < b THEN a ELSE b

\* The answers the server may give to a search: the `limit` best candidates
\* by non-increasing score.  The order among equal scores is the server's.
SearchAnswers(pts, searchParams) ==
    LET cands == Candidates(pts, searchParams)
        n == Min(searchParams.limit, Cardinality(cands))
        sc(p) == Score(searchParams.vector, p.vector)
    IN  {s \in [1..n -> cands] :
            /\ \A i, j \in 1..n : i < j => (s[i] # s[j] /\ ScoreLeq(sc(s[j]), sc(s[i])))
            /\ \A p \in cands : (\A i \in 1..n : s[i] # p) =>
                                    \A i \in 1..n : ScoreLeq(sc(p), sc(s[i]))}

\* The collection itself: absent, or there with the vector size it was
\* created with.  creations counts the createCollection requests applied.
NoCollection == [exists |-> FALSE, creations |-> 0]
Established(size) == [exists |-> TRUE, size |-> size, creations |-> 1]

\* createCollection(name, {vectors: {size, distance: 'Cosine'}, ...}) on a
\* name that is free.
CreateCollection(coll, size) ==
    [exists |-> TRUE, size |-> size, creations |-> coll.creations + 1]

\* The server accepts a search or an upsert when the collection is there
\* and the vector has its size; it rejects the request otherwise.
Accepts(coll, vec) == coll.exists /\ coll.size = VecLen(vec)

NotFoundError == "Not found: Collection doesn't exist"
DimensionError == "Wrong input: Vector dimension error"
Rejection(coll) == IF coll.exists THEN DimensionError ELSE NotFoundError

\* upsert: the point replaces any point of the same id.
UpsertPoint(pts, point) == {p \in pts : p.id # point.id} \cup {point}

\* delete by filter {must: [{key: 'expiresAt', range: {lt: now}}]}.
DeleteExpired(pts, sweepNow) ==
    {p \in pts : ~(Has(p.payload, "expiresAt") /\ p.payload.expiresAt < sweepNow)}


(***************************************************************************)
(* QdrantCache, the client side (qdrant.ts).                               *)
(***************************************************************************)
\* Truthiness of a number and of a string.
TruthyNum(n) == n # 0
TruthyStr(str) == str # ""

\* search(vector, limit, scoreThreshold, filter): the request it sends.
\* `if (filter)` holds of every object, the empty one included.
searchParams(vector, limit, scoreThreshold, filter) ==
    [vector |-> vector, limit |-> limit, score_threshold |-> scoreThreshold,
     with_payload |-> TRUE, filter |-> filter]

\* What the server returns for a point: id, score and payload.
ScoredPoint(point, vector) ==
    [id |-> point.id, score |-> Score(vector, point.vector), payload |-> point.payload,
     origin |-> point.origin]

\* mapResults that takes the response from the wrong field of the payload.
mapResults_promptAsResponse(results, t) ==
    [i \in DOMAIN results |->
        [id |-> results[i].id,
         response |-> JsString("prompt"),
         score |-> results[i].score,
         metadata |-> results[i].payload.metadata,
         createdAt |-> IF TruthyNum(results[i].payload.createdAt)
                       THEN results[i].payload.createdAt ELSE t,
         origin |-> results[i].origin]]

\* results.map(result => ...) of search, run at time t.
mapResults(results, t) ==
    [i \in DOMAIN results |->
        [id |-> results[i].id,
         response |-> results[i].payload.response,
         score |-> results[i].score,
         metadata |-> results[i].payload.metadata,
         createdAt |-> IF TruthyNum(results[i].payload.createdAt)
                       THEN results[i].payload.createdAt ELSE t,
         origin |-> results[i].origin]]

\* suggest(vector, limit = 5, scoreThreshold = 0.7, filter): search with
\* its own defaults for the arguments the caller leaves undefined.
SuggestLimit == 5
SuggestThreshold == 70

\* suggestParams that leaves the arguments the caller omits to the defaults
\* of search (limit = 1, scoreThreshold = 0.8).
suggestParams_searchDefaults(vector, args, filter) ==
    searchParams(vector, OrElse(args, "limit", 1), OrElse(args, "minSimilarity", 80), filter)

\* suggestParams that does not pass the caller's limit and threshold on.
suggestParams_ignoresArgs(vector, args, filter) ==
    searchParams(vector, SuggestLimit, SuggestThreshold, filter)

suggestParams(vector, args, filter) ==
    searchParams(vector, OrElse(args, "limit", SuggestLimit),
                 OrElse(args, "minSimilarity", SuggestThreshold), filter)

MsPerSec == 1000

\* storePoint with the id taken from nothing fresh: every point gets id 1.
storePoint_fixedId(id, t, vector, response, metadata, ttl) ==
    LET payload == [response |-> response, metadata |-> metadata, createdAt |-> t]
    IN  [id |-> 1, vector |-> vector,
         payload |-> IF TruthyNum(ttl)
                     THEN ("expiresAt" :> (t + ttl * MsPerSec)) @@ payload
                     ELSE payload]

\* store(vector, response, metadata, ttl): the point it upserts, with the
\* id uuidv4() returned and the time Date.now() returned.
storePoint(id, t, vector, response, metadata, ttl) ==
    LET payload == [response |-> response, metadata |-> metadata, createdAt |-> t]
    IN  [id |-> id, vector |-> vector,
         payload |-> IF TruthyNum(ttl)
                     THEN ("expiresAt" :> (t + ttl * MsPerSec)) @@ payload
                     ELSE payload]

(***************************************************************************)
(* OptiLLM (embedding.ts:60-173).                                          *)
(***************************************************************************)
DefaultTTL == 3600
DefaultThreshold == 85

Defaults ==
    [collectionName |-> "llm_cache", embedding |-> [provider |-> "local"],
     defaultTTL |-> DefaultTTL, similarityThreshold |-> DefaultThreshold]

\* this.config = { ...defaults, ...config }
OptiLLMConfig(userConfig) == userConfig @@ Defaults

\* scopeFilter that always adds the tenant condition, for the tenant "" when
\* the metadata names none.
scopeFilter_always(metadata) ==
    [must |-> <<[key |-> "tenantId", value |-> OrElse(metadata, "tenantId", "")]>>]

\* scopeFilter that never adds the tenant condition.
scopeFilter_unscoped(metadata) == EmptyObject

\* Build filter for tenant/user scoping.
scopeFilter(metadata) ==
    IF Has(metadata, "tenantId") /\ TruthyStr(metadata.tenantId)
    THEN [must |-> <<[key |-> "tenantId", value |-> metadata.tenantId]>>]
    ELSE EmptyObject

\* policy?.minSimilarity ?? this.config.similarityThreshold
resolveThreshold(cfg, options) == OrElse(options.policy, "minSimilarity", cfg.similarityThreshold)

\* policy?.maxAge ?? this.config.defaultTTL
resolveMaxAge(cfg, options) == OrElse(options.policy, "maxAge", cfg.defaultTTL)

\* isFresh that takes a maxAge of zero for a limit like any other.
isFresh_zeroIsLimit(maxAge, t, createdAt) == t - createdAt < maxAge * MsPerSec

\* isFresh with age <= maxAge.
isFresh_inclusive(maxAge, t, createdAt) ==
    (~TruthyNum(maxAge)) \/ (t - createdAt <= maxAge * MsPerSec)

\* !maxAge || age < maxAge, with age = (Date.now() - cached.createdAt) / 1000.
isFresh(maxAge, t, createdAt) == (~TruthyNum(maxAge)) \/ (t - createdAt < maxAge * MsPerSec)

(***************************************************************************)
(* Inputs.                                                                 *)
(***************************************************************************)
\* "A b" and "a b c": cosine 2 / sqrt(6), about 0.816.
PromptAB == <<65, 32, 98>>
PromptABC == <<97, 32, 98, 32, 99>>
Prompts == {PromptAB, PromptABC}

TenantIds == {"", "acme", "globex"}

\* The policy of the demo application's /chat, scaled to the model's clock.
ChatPolicy == [maxAge |-> 1, minSimilarity |-> 80]
Policies == {EmptyObject, ChatPolicy}
\* maxAge is a number; nothing restricts its range.
NegativePolicy == [maxAge |-> 0 - 1]
ZeroPolicy == [maxAge |-> 0]
UserIds == {"alice", "bob"}

Requests(prompts, tenantIds, policies) ==
    {[prompt |-> p,
      metadata |-> [provider |-> "openai", model |-> "gpt-4o-mini", tenantId |-> t],
      policy |-> pol] : p \in prompts, t \in tenantIds, pol \in policies}

\* The requests whose metadata names no tenant at all.
WithoutTenant(requests) ==
    {[r EXCEPT !.metadata = [provider |-> r.metadata.provider, model |-> r.metadata.model]] :
        r \in requests}

WithUser(requests, userIds) ==
    {[r EXCEPT !.metadata = ("userId" :> u) @@ r.metadata] : r \in requests, u \in userIds}

\* The vector sizes ensureCollection is called with: LocalEmbedding's and
\* that of an engine configured with OpenAI's text-embedding-3-small.
VectorSizes == {DefaultDim, 1536}

\* What the producer may return, and the errors that may be thrown.
Paris == JsString("Paris")
Responses == {Paris, JsNumber("42")}
LlmError == "LLM call failed"
QdrantError == "Qdrant request failed"

UserConfigs == {[qdrantUrl |-> "http://localhost:6333", defaultTTL |-> 3]}
\* An engine configured with defaultTTL: 0.
ZeroTTLConfigs == {[qdrantUrl |-> "http://localhost:6333", defaultTTL |-> 0]}

Calls == {"c1", "c2"}

\* What the callers of one run do: the requests they issue, what their
\* producers return, and the calls they keep in flight at once.
\* The queries of suggest.
Queries ==
    {[text |-> PromptAB, tenantId |-> "acme"],
     [text |-> PromptABC, limit |-> 1, minSimilarity |-> 80]}

Workload(options, responses, slots, queries, cleanup) ==
    [options |-> options, responses |-> responses, slots |-> slots, queries |-> queries,
     cleanup |-> cleanup, collection |-> Established(DefaultDim), ensures |-> {},
     configs |-> UserConfigs]

\* The last run starts before any init(): the collection is not there yet.
Workloads ==
    {Workload(Requests(Prompts, {"acme"}, Policies), {Paris}, {"c1"}, {}, TRUE),
     Workload(Requests({PromptAB}, TenantIds, {EmptyObject}), {Paris}, {"c1"}, {}, FALSE),
     Workload(Requests({PromptAB}, {"acme"}, {EmptyObject}), Responses, {"c1"}, {}, TRUE),
     Workload(Requests({PromptAB}, {"acme"}, {ChatPolicy}), {Paris}, Calls, {}, FALSE),
     Workload(Requests(Prompts, {"acme"}, {ChatPolicy}), {Paris}, {"c1"}, Queries, FALSE),
     Workload(Requests({PromptAB}, {"acme"}, {ChatPolicy}), {Paris}, {"c1"},
              {[text |-> PromptAB, tenantId |-> "acme"]}, TRUE),
     Workload(Requests({PromptAB}, {"acme"}, {NegativePolicy}), {Paris}, {"c1"}, {}, TRUE),
     Workload(WithUser(Requests({PromptAB}, {"acme"}, {EmptyObject}), UserIds),
              {Paris}, {"c1"}, {}, TRUE),
     Workload(Requests({PromptAB}, {"acme"}, {ChatPolicy, ZeroPolicy}),
              {Paris}, {"c1"}, {}, TRUE),
     [Workload(Requests({PromptAB}, {"acme"}, {EmptyObject}), {Paris}, {"c1"}, {}, TRUE)
         EXCEPT !.configs = ZeroTTLConfigs],
     Workload(Requests({PromptAB}, {"acme"}, {EmptyObject})
                 \cup WithoutTenant(Requests({PromptAB}, {"acme"}, {EmptyObject})),
              {Paris}, {"c1"}, {}, FALSE),
     [Workload(Requests({PromptAB}, {"acme"}, {EmptyObject}), {Paris}, {"c1"}, {}, TRUE)
         EXCEPT !.collection = NoCollection, !.ensures = VectorSizes]}

\* LocalEmbedding instances and the texts given to them: "", " \t\n",
\* "A b", "b \t a", "France a what" (the hash of "france" is negative, "a"
\* and "what" share a bucket of 7) and "polygenelubricants" (hash -2^31).
Providers == {"p1", "p2"}
Dims == {DefaultDim, 7}
TextMinHash ==
    <<112, 111, 108, 121, 103, 101, 110, 101, 108, 117, 98, 114, 105, 99, 97, 110, 116, 115>>
Texts ==
    {<<>>, <<32, 9, 10>>, PromptAB, <<98, 32, 9, 32, 97>>,
     <<70, 114, 97, 110, 99, 101, 32, 97, 32, 119, 104, 97, 116>>, TextMinHash}

\* new LocalEmbedding(dim): the vocab map is empty and stays so.
LocalEmbedding(dim) == [vocab |-> EmptyObject, dim |-> dim]

StartTime == 10 * MsPerSec
TickMs == MsPerSec

(***************************************************************************)
(* State.                                                                  *)
(***************************************************************************)
VARIABLES
    config,     \* the engine's configuration, fixed at construction
    workload,   \* what the callers of this run do
    now,        \* Date.now()
    points,     \* the Qdrant collection
    nextId,     \* the next id uuidv4() returns
    calls,      \* the capture calls in progress
    sweep,      \* the cleanup call in progress
    suggestion, \* the suggest call in progress
    collection, \* the Qdrant collection's existence and vector size
    ensure,     \* the ensureCollection call in progress
    embedder,   \* the LocalEmbedding instances
    history     \* the embed calls made on them and what they returned

vars ==
    <<config, workload, now, points, nextId, calls, sweep, suggestion, collection, ensure,
      embedder, history>>

IdleCall == [pc |-> "idle"]

Init ==
    /\ workload \in Workloads
    /\ config \in {OptiLLMConfig(u) : u \in workload.configs}
    /\ now = StartTime
    /\ points = {}
    /\ nextId = 1
    /\ calls = [c \in Calls |-> IdleCall]
    /\ sweep = [pc |-> "idle"]
    /\ suggestion = [pc |-> "idle"]
    /\ collection = workload.collection
    /\ ensure = [pc |-> "idle"]
    /\ embedder = [p \in Providers |-> LocalEmbedding(DefaultDim)]
    /\ history = <<>>

(***************************************************************************)
(* capture(options, llmCall), one action per await.  Beside what the code  *)
(* holds, a call records what it did: llmCalls (producer invocations),     *)
(* storeCalls (calls of cache.store), writes (upserts applied), and what   *)
(* its search saw: sawEmpty (the collection was empty) and candTimes (the  *)
(* createdAt of every point that passed the filter and the threshold).     *)
(* When it resumes it records what held then: noCandidate (no point passed *)
(* them), freshCandidate (one of those points had age < maxAge), stale     *)
(* (the point returned had age >= maxAge, maxAge not zero) and expired     *)
(* (the point returned had expiresAt <= now).  A point carries its origin  *)
(* (the options of the call that wrote it and the value its producer       *)
(* returned), which no code reads.                                         *)
(***************************************************************************)
\* The call starts: the prompt is embedded, the filter and the threshold are
\* resolved and the search request is sent.
Start(c, options) ==
    /\ calls[c].pc = "idle"
    /\ c \in workload.slots
    /\ options \in workload.options
    /\ calls' = [calls EXCEPT ![c] =
          [pc |-> "search", options |-> options,
           vector |-> embed(options.prompt, DefaultDim),
           llmCalls |-> 0, storeCalls |-> 0, writes |-> 0]]
    /\ UNCHANGED <<config, workload, now, points, nextId, sweep, suggestion, collection, ensure, embedder, history>>

requestOf(call) ==
    searchParams(call.vector, 1, resolveThreshold(config, call.options),
                 scopeFilter(call.options.metadata))

\* Search that invokes the producer while the search is in flight.
Search_prefetch(c) ==
    /\ calls[c].pc = "search"
    /\ Accepts(collection, calls[c].vector)
    /\ \E answer \in SearchAnswers(points, requestOf(calls[c])) :
          calls' = [calls EXCEPT ![c] =
              [pc |-> "decide",
               raw |-> [i \in DOMAIN answer |-> ScoredPoint(answer[i], calls[c].vector)],
               sawEmpty |-> (points = {}),
               candTimes |-> {p.payload.createdAt : p \in Candidates(points, requestOf(calls[c]))},
               llmCalls |-> calls[c].llmCalls + 1]
              @@ calls[c]]
    /\ UNCHANGED <<config, workload, now, points, nextId, sweep, suggestion, collection, ensure, embedder, history>>

\* The server answers the search.
Search(c) ==
    /\ calls[c].pc = "search"
    /\ Accepts(collection, calls[c].vector)
    /\ \E answer \in SearchAnswers(points, requestOf(calls[c])) :
          calls' = [calls EXCEPT ![c] =
              [pc |-> "decide",
               raw |-> [i \in DOMAIN answer |-> ScoredPoint(answer[i], calls[c].vector)],
               sawEmpty |-> (points = {}),
               candTimes |-> {p.payload.createdAt : p \in Candidates(points, requestOf(calls[c]))}]
              @@ calls[c]]
    /\ UNCHANGED <<config, workload, now, points, nextId, sweep, suggestion, collection, ensure, embedder, history>>

\* The search request fails: search logs and rethrows.
SearchFail(c) ==
    /\ calls[c].pc = "search"
    /\ calls' = [calls EXCEPT ![c] =
          [pc |-> "done", options |-> calls[c].options, outcome |-> "threw",
           error |-> QdrantError, llmCalls |-> calls[c].llmCalls,
           storeCalls |-> calls[c].storeCalls, writes |-> calls[c].writes]]
    /\ UNCHANGED <<config, workload, now, points, nextId, sweep, suggestion, collection, ensure, embedder, history>>

\* SearchReject with a catch that takes a failed search for no result.
SearchReject_swallowed(c) ==
    /\ calls[c].pc = "search"
    /\ ~Accepts(collection, calls[c].vector)
    /\ calls' = [calls EXCEPT ![c] =
          [pc |-> "decide", raw |-> <<>>, sawEmpty |-> (points = {}), candTimes |-> {}]
          @@ calls[c]]
    /\ UNCHANGED <<config, workload, now, points, nextId, sweep, suggestion, collection, ensure, embedder, history>>

\* The server rejects the search: search logs and rethrows.
SearchReject(c) ==
    /\ calls[c].pc = "search"
    /\ ~Accepts(collection, calls[c].vector)
    /\ calls' = [calls EXCEPT ![c] =
          [pc |-> "done", options |-> calls[c].options, outcome |-> "threw",
           error |-> Rejection(collection), llmCalls |-> calls[c].llmCalls,
           storeCalls |-> calls[c].storeCalls, writes |-> calls[c].writes]]
    /\ UNCHANGED <<config, workload, now, points, nextId, sweep, suggestion, collection, ensure, embedder, history>>

\* capture resumes with the results: a fresh best candidate is returned,
\* otherwise llmCall is invoked.
Decide(c) ==
    /\ calls[c].pc = "decide"
    /\ LET call == calls[c]
           results == mapResults(call.raw, now)
           maxAge == resolveMaxAge(config, call.options)
           hit == Len(results) > 0 /\ isFresh(maxAge, now, results[1].createdAt)
           seen == [options |-> call.options, llmCalls |-> call.llmCalls,
                    storeCalls |-> call.storeCalls, writes |-> call.writes,
                    sawEmpty |-> call.sawEmpty,
                    noCandidate |-> (call.candTimes = {}),
                    freshCandidate |->
                        (\E t \in call.candTimes : now - t < maxAge * MsPerSec),
                    stale |-> (/\ Len(results) > 0
                               /\ TruthyNum(maxAge)
                               /\ now - results[1].createdAt >= maxAge * MsPerSec),
                    results |-> results,
                    expired |-> (/\ Len(results) > 0
                                 /\ Has(call.raw[1].payload, "expiresAt")
                                 /\ now >= call.raw[1].payload.expiresAt)]
       IN  calls' = [calls EXCEPT ![c] =
              IF hit
              THEN [pc |-> "done", outcome |-> "returned",
                    result |-> [response |-> results[1].response, cached |-> TRUE,
                                cost_saved |-> TRUE]] @@ seen
              ELSE [pc |-> "llm", vector |-> call.vector,
                    llmCalls |-> call.llmCalls + 1] @@ seen]
    /\ UNCHANGED <<config, workload, now, points, nextId, sweep, suggestion, collection, ensure, embedder, history>>

\* What a call that is over keeps of a call that reached the producer.
Ended(call) ==
    [pc |-> "done", options |-> call.options, llmCalls |-> call.llmCalls,
     storeCalls |-> call.storeCalls, writes |-> call.writes,
     sawEmpty |-> call.sawEmpty, noCandidate |-> call.noCandidate,
     freshCandidate |-> call.freshCandidate, stale |-> call.stale,
     results |-> call.results, expired |-> call.expired]

\* LlmReturn that returns the response without calling store.
LlmReturn_noStore(c, response) ==
    /\ calls[c].pc = "llm"
    /\ response \in workload.responses
    /\ nextId <= MaxWrites
    /\ calls' = [calls EXCEPT ![c] =
          [outcome |-> "returned",
           result |-> [response |-> response, cached |-> FALSE]] @@ Ended(calls[c])]
    /\ UNCHANGED <<config, workload, now, points, nextId, sweep, suggestion, collection, ensure, embedder, history>>

\* llmCall resolves: capture calls store, which takes an id and the time
\* and sends the upsert.
LlmReturn(c, response) ==
    /\ calls[c].pc = "llm"
    /\ response \in workload.responses
    /\ nextId <= MaxWrites
    /\ LET call == calls[c]
           ttl == resolveMaxAge(config, call.options)
           metadata == ("prompt" :> call.options.prompt) @@ call.options.metadata
       IN  calls' = [calls EXCEPT ![c] =
              [pc |-> "upsert", response |-> response,
               storeCalls |-> call.storeCalls + 1,
               point |-> [origin |-> [options |-> call.options, response |-> response]]
                         @@ storePoint(nextId, now, call.vector, JSONstringify(response),
                                       metadata, ttl)] @@ call]
    /\ nextId' = nextId + 1
    /\ UNCHANGED <<config, workload, now, points, sweep, suggestion, collection, ensure, embedder, history>>

\* LlmThrow that wraps the producer's error in one of its own.
LlmThrow_wrapped(c) ==
    /\ calls[c].pc = "llm"
    /\ calls' = [calls EXCEPT ![c] =
          [outcome |-> "threw", error |-> "capture failed"] @@ Ended(calls[c])]
    /\ UNCHANGED <<config, workload, now, points, nextId, sweep, suggestion, collection, ensure, embedder, history>>

\* LlmThrow that invokes the producer again instead of giving up.
LlmThrow_retry(c) ==
    /\ calls[c].pc = "llm"
    /\ calls' = [calls EXCEPT ![c].llmCalls = @ + 1]
    /\ UNCHANGED <<config, workload, now, points, nextId, sweep, suggestion, collection, ensure, embedder, history>>

\* llmCall rejects: the error leaves capture.
LlmThrow(c) ==
    /\ calls[c].pc = "llm"
    /\ calls' = [calls EXCEPT ![c] =
          [outcome |-> "threw", error |-> LlmError] @@ Ended(calls[c])]
    /\ UNCHANGED <<config, workload, now, points, nextId, sweep, suggestion, collection, ensure, embedder, history>>

\* Upsert that returns cost_saved: false with the response.
Upsert_costSavedFalse(c) ==
    /\ calls[c].pc = "upsert"
    /\ Accepts(collection, calls[c].point.vector)
    /\ points' = UpsertPoint(points, calls[c].point)
    /\ calls' = [calls EXCEPT ![c] =
          [outcome |-> "returned", writes |-> calls[c].writes + 1,
           wrote |-> calls[c].point.id,
           result |-> [response |-> calls[c].response, cached |-> FALSE,
                       cost_saved |-> FALSE]]
          @@ Ended(calls[c])]
    /\ UNCHANGED <<config, workload, now, nextId, sweep, suggestion, collection, ensure, embedder, history>>

\* The server applies the upsert; store and then capture return.
Upsert(c) ==
    /\ calls[c].pc = "upsert"
    /\ Accepts(collection, calls[c].point.vector)
    /\ points' = UpsertPoint(points, calls[c].point)
    /\ calls' = [calls EXCEPT ![c] =
          [outcome |-> "returned", writes |-> calls[c].writes + 1,
           wrote |-> calls[c].point.id,
           result |-> [response |-> calls[c].response, cached |-> FALSE]]
          @@ Ended(calls[c])]
    /\ UNCHANGED <<config, workload, now, nextId, sweep, suggestion, collection, ensure, embedder, history>>

\* UpsertFail that catches the error of store and returns the response.
UpsertFail_swallowed(c) ==
    /\ calls[c].pc = "upsert"
    /\ calls' = [calls EXCEPT ![c] =
          [outcome |-> "returned",
           result |-> [response |-> calls[c].response, cached |-> FALSE]]
          @@ Ended(calls[c])]
    /\ UNCHANGED <<config, workload, now, points, nextId, sweep, suggestion, collection, ensure, embedder, history>>

\* The upsert fails: the error leaves store and capture.
UpsertFail(c) ==
    /\ calls[c].pc = "upsert"
    /\ calls' = [calls EXCEPT ![c] =
          [outcome |-> "threw", error |-> QdrantError] @@ Ended(calls[c])]
    /\ UNCHANGED <<config, workload, now, points, nextId, sweep, suggestion, collection, ensure, embedder, history>>

\* The caller has the outcome; the slot is free for the next call.
Finish(c) ==
    /\ calls[c].pc = "done"
    /\ calls' = [calls EXCEPT ![c] = IdleCall]
    /\ UNCHANGED <<config, workload, now, points, nextId, sweep, suggestion, collection, ensure, embedder, history>>

(***************************************************************************)
(* cleanup() (qdrant.ts:139-158, called by OptiLLM.cleanup).               *)
(***************************************************************************)
CleanupStart ==
    /\ sweep.pc = "idle"
    /\ workload.cleanup
    /\ sweep' = [pc |-> "delete", now |-> now]
    /\ UNCHANGED <<config, workload, now, points, nextId, calls, suggestion, collection, ensure, embedder, history>>

Delete ==
    /\ sweep.pc = "delete"
    /\ collection.exists
    /\ points' = DeleteExpired(points, sweep.now)
    /\ sweep' = [pc |-> "idle"]
    /\ UNCHANGED <<config, workload, now, nextId, calls, suggestion, collection, ensure, embedder, history>>

\* DeleteFail without the catch: the error leaves cleanup.
DeleteFail_rethrown ==
    /\ sweep.pc = "delete"
    /\ sweep' = [pc |-> "threw", error |-> QdrantError]
    /\ UNCHANGED <<config, workload, now, points, nextId, calls, suggestion, collection, ensure, embedder, history>>

\* The delete request fails: cleanup warns ('Cleanup failed:') and returns
\* normally.
DeleteFail ==
    /\ sweep.pc = "delete"
    /\ sweep' = [pc |-> "idle", warned |-> TRUE]
    /\ UNCHANGED <<config, workload, now, points, nextId, calls, suggestion, collection, ensure, embedder, history>>

(***************************************************************************)
(* suggest(query): embed, scoped search through QdrantCache.suggest, no    *)
(* freshness test, nothing written.                                        *)
(***************************************************************************)
suggestFilter(query) ==
    IF Has(query, "tenantId") /\ TruthyStr(query.tenantId)
    THEN [must |-> <<[key |-> "tenantId", value |-> query.tenantId]>>]
    ELSE EmptyObject

\* The items suggest returns for the results of the search.
suggestItems(results) ==
    [i \in DOMAIN results |->
        [id |-> results[i].id, prompt |-> results[i].metadata.prompt,
         response |-> results[i].response, score |-> results[i].score,
         createdAt |-> results[i].createdAt, metadata |-> results[i].metadata]]

SuggestStart(query) ==
    /\ suggestion.pc = "idle"
    /\ query \in workload.queries
    /\ suggestion' = [pc |-> "search", query |-> query]
    /\ UNCHANGED <<config, workload, now, points, nextId, calls, sweep, collection, ensure, embedder, history>>

SuggestSearch ==
    /\ suggestion.pc = "search"
    /\ Accepts(collection, embed(suggestion.query.text, DefaultDim))
    /\ LET vector == embed(suggestion.query.text, DefaultDim)
           request == suggestParams(vector, suggestion.query, suggestFilter(suggestion.query))
       IN  \E answer \in SearchAnswers(points, request) :
              suggestion' =
                 [pc |-> "done", query |-> suggestion.query, outcome |-> "returned",
                  items |-> suggestItems(mapResults(
                      [i \in DOMAIN answer |-> ScoredPoint(answer[i], vector)], now))]
    /\ UNCHANGED <<config, workload, now, points, nextId, calls, sweep, collection, ensure, embedder, history>>

SuggestFail ==
    /\ suggestion.pc = "search"
    /\ suggestion' = [pc |-> "done", query |-> suggestion.query, outcome |-> "threw",
                      error |-> QdrantError]
    /\ UNCHANGED <<config, workload, now, points, nextId, calls, sweep, collection, ensure, embedder, history>>

SuggestFinish ==
    /\ suggestion.pc = "done"
    /\ suggestion' = [pc |-> "idle"]
    /\ UNCHANGED <<config, workload, now, points, nextId, calls, sweep, collection, ensure, embedder, history>>

(***************************************************************************)
(* ensureCollection(vectorSize) (qdrant.ts:17-37, called by init).         *)
(***************************************************************************)
EnsureStart(vectorSize) ==
    /\ ensure.pc = "idle"
    /\ vectorSize \in workload.ensures
    /\ ensure' = [pc |-> "get", vectorSize |-> vectorSize]
    /\ UNCHANGED <<config, workload, now, points, nextId, calls, sweep, suggestion, collection, embedder, history>>

\* getCollection answers: the collection is there.
EnsureGet ==
    /\ ensure.pc = "get"
    /\ collection.exists
    /\ ensure' = [ensure EXCEPT !.pc = "indexes"]
    /\ UNCHANGED <<config, workload, now, points, nextId, calls, sweep, suggestion, collection, embedder, history>>

\* getCollection throws, because the collection is not there or for any
\* other reason: the catch goes on to create it.
EnsureGetFail ==
    /\ ensure.pc = "get"
    /\ ensure' = [ensure EXCEPT !.pc = "create"]
    /\ UNCHANGED <<config, workload, now, points, nextId, calls, sweep, suggestion, collection, embedder, history>>

\* EnsureCreate by recreateCollection: what is there is dropped first.
EnsureCreate_recreate ==
    /\ ensure.pc = "create"
    /\ collection' = CreateCollection(collection, ensure.vectorSize)
    /\ points' = {}
    /\ ensure' = [ensure EXCEPT !.pc = "indexes"]
    /\ UNCHANGED <<config, workload, now, nextId, calls, sweep, suggestion, embedder, history>>

\* createCollection is applied.
EnsureCreate ==
    /\ ensure.pc = "create"
    /\ ~collection.exists
    /\ collection' = CreateCollection(collection, ensure.vectorSize)
    /\ ensure' = [ensure EXCEPT !.pc = "indexes"]
    /\ UNCHANGED <<config, workload, now, points, nextId, calls, sweep, suggestion, embedder, history>>

\* createCollection throws (the name is taken, or the request fails): the
\* error leaves ensureCollection.
EnsureCreateFail ==
    /\ ensure.pc = "create"
    /\ ensure' = [pc |-> "idle"]
    /\ UNCHANGED <<config, workload, now, points, nextId, calls, sweep, suggestion, collection, embedder, history>>

\* ensurePayloadIndexes: six createPayloadIndex requests, every error
\* caught; ensureCollection returns.
EnsureIndexes ==
    /\ ensure.pc = "indexes"
    /\ ensure' = [pc |-> "idle"]
    /\ UNCHANGED <<config, workload, now, points, nextId, calls, sweep, suggestion, collection, embedder, history>>

(***************************************************************************)
(* LocalEmbedding on its own: instances of the dimensions given to the     *)
(* constructor, and embed calls on them.                                   *)
(***************************************************************************)
EmbedInit ==
    /\ config \in {OptiLLMConfig(u) : u \in UserConfigs}
    /\ workload = Workload({}, {}, {}, {}, FALSE)
    /\ now = StartTime
    /\ points = {}
    /\ nextId = 1
    /\ calls = [c \in Calls |-> IdleCall]
    /\ sweep = [pc |-> "idle"]
    /\ suggestion = [pc |-> "idle"]
    /\ collection = workload.collection
    /\ ensure = [pc |-> "idle"]
    /\ embedder \in {[p \in Providers |-> LocalEmbedding(IF p = "p1" THEN DefaultDim ELSE d)] :
                        d \in Dims}
    /\ history = <<>>

\* Embed that gives a token the bucket of its rank in the vocabulary it
\* builds up (a token seen first gets the next index).
Embed_vocabIndexed(p, text) ==
    /\ Len(history) < MaxEmbeds
    /\ text \in Texts
    /\ LET tokens == tokensOf(text)
           vocab == embedder[p].vocab
           dim == embedder[p].dim
           first(tok) == CHOOSE k \in DOMAIN tokens :
                            tokens[k] = tok /\ \A j \in 1..(k - 1) : tokens[j] # tok
           rank(tok) ==
               IF tok \in DOMAIN vocab THEN vocab[tok]
               ELSE Cardinality(DOMAIN vocab)
                    + Cardinality({tokens[j] : j \in 1..(first(tok) - 1)} \ DOMAIN vocab)
           words == {tokens[k] : k \in DOMAIN tokens}
           buckets == {rank(tok) % dim : tok \in words}
           vector == [len |-> dim,
                      nz |-> [i \in buckets |->
                                 Cardinality({k \in DOMAIN tokens : rank(tokens[k]) % dim = i})]]
       IN  /\ history' = Append(history,
                  [provider |-> p, text |-> text,
                   vector |-> [num |-> vector, norm2 |-> SumSq(vector)]])
           /\ embedder' = [embedder EXCEPT ![p].vocab =
                              [tok \in words \cup DOMAIN vocab |-> rank(tok)]]
    /\ UNCHANGED <<config, workload, now, points, nextId, calls, sweep, suggestion, collection, ensure>>

\* embed(text) on the instance p.
Embed(p, text) ==
    /\ Len(history) < MaxEmbeds
    /\ text \in Texts
    /\ history' = Append(history,
           [provider |-> p, text |-> text, vector |-> embed(text, embedder[p].dim)])
    /\ UNCHANGED <<config, workload, now, points, nextId, calls, sweep, suggestion, collection, ensure, embedder>>

EmbedNext == \E p \in Providers, text \in Texts : Embed(p, text)

EmbedSpec == EmbedInit /\ [][EmbedNext]_vars

Tick ==
    /\ now < StartTime + MaxTicks * TickMs
    /\ now' = now + TickMs
    /\ UNCHANGED <<config, workload, points, nextId, calls, sweep, suggestion, collection, ensure, embedder, history>>

Next ==
    \/ \E c \in Calls, options \in UNION {w.options : w \in Workloads} : Start(c, options)
    \/ \E c \in Calls : Search(c)
    \/ \E c \in Calls : SearchFail(c)
    \/ \E c \in Calls : SearchReject(c)
    \/ \E c \in Calls : Decide(c)
    \/ \E c \in Calls, response \in Responses : LlmReturn(c, response)
    \/ \E c \in Calls : LlmThrow(c)
    \/ \E c \in Calls : Upsert(c)
    \/ \E c \in Calls : UpsertFail(c)
    \/ \E c \in Calls : Finish(c)
    \/ CleanupStart
    \/ Delete
    \/ DeleteFail
    \/ \E query \in Queries : SuggestStart(query)
    \/ SuggestSearch
    \/ SuggestFail
    \/ SuggestFinish
    \/ \E vectorSize \in VectorSizes : EnsureStart(vectorSize)
    \/ EnsureGet
    \/ EnsureGetFail
    \/ EnsureCreate
    \/ EnsureCreateFail
    \/ EnsureIndexes
    \/ Tick

Spec == Init /\ [][Next]_vars

(***************************************************************************)
(* Properties.                                                             *)
(***************************************************************************)
Decided(c) == calls[c].pc \in {"llm", "upsert", "done"} /\ Has(calls[c], "results")
Returned(c) == calls[c].pc = "done" /\ calls[c].outcome = "returned"
Hit(c) == Returned(c) /\ calls[c].result.cached
Miss(c) == Returned(c) /\ ~calls[c].result.cached
\* The tenant a request names, "" when it names none.
TenantOf(options) == OrElse(options.metadata, "tenantId", "")
Ids(pts) == {p.id : p \in pts}

\* C1: a call whose search saw a point in scope with similarity >= the
\* threshold, and of age < maxAge when the call resumed, does not invoke the
\* producer and returns cached = true.
C1_FreshCandidateHits ==
    \A c \in Calls :
        (Decided(c) /\ calls[c].freshCandidate) =>
            /\ calls[c].llmCalls = 0
            /\ calls[c].pc = "done"
            /\ Hit(c)

\* C2: a call whose best candidate is stale (age >= maxAge, maxAge not zero)
\* is never a hit and invokes the producer exactly once; when it returns it
\* returns cached = false, having called store once and written one record.
C2_StaleCandidateMisses ==
    \A c \in Calls :
        (Decided(c) /\ calls[c].stale) =>
            /\ calls[c].llmCalls = 1
            /\ ~Hit(c)
            /\ Returned(c) =>
                  /\ calls[c].result.cached = FALSE
                  /\ calls[c].storeCalls = 1
                  /\ calls[c].writes = 1

C2_Witness ==
    \E c \in Calls :
        /\ Miss(c) /\ calls[c].stale
        /\ calls[c].llmCalls = 1 /\ calls[c].writes = 1
        /\ \E p \in points : p.id = calls[c].wrote

\* C3: a hit of a call issued with a (non-empty) tenantId is a record that
\* was written by a call issued with that same tenantId.
C3_TenantIsolation ==
    \A c \in Calls :
        (Hit(c) /\ TruthyStr(TenantOf(calls[c].options))) =>
            TenantOf(calls[c].results[1].origin.options) = TenantOf(calls[c].options)

\* A call of one tenant has missed although another tenant's record of the
\* identical prompt is in the collection.
C3_Witness ==
    \E c \in Calls :
        /\ Miss(c) /\ calls[c].noCandidate
        /\ TruthyStr(TenantOf(calls[c].options))
        /\ \E p \in points :
              /\ p.id # calls[c].wrote
              /\ p.origin.options.prompt = calls[c].options.prompt
              /\ TruthyStr(TenantOf(p.origin.options))
              /\ TenantOf(p.origin.options) # TenantOf(calls[c].options)

\* C4: a call whose search saw the empty collection invokes the producer
\* exactly once and is no hit; when it returns it returns cached = false
\* having written one record; and the write of a call into a collection that
\* is still empty leaves exactly one record in it.
C4_EmptyStoreMisses ==
    /\ [](\A c \in Calls :
            (Decided(c) /\ calls[c].sawEmpty) =>
                /\ calls[c].llmCalls = 1
                /\ calls[c].noCandidate
                /\ ~Hit(c)
                /\ Returned(c) => (calls[c].storeCalls = 1 /\ calls[c].writes = 1))
    /\ [][\A c \in Calls :
            (calls[c].pc = "upsert" /\ calls[c].sawEmpty /\ points = {}
               /\ calls'[c].pc = "done" /\ calls'[c].outcome = "returned")
            => Cardinality(points') = 1]_vars

C4_Witness ==
    \E c \in Calls :
        /\ Miss(c) /\ calls[c].sawEmpty
        /\ calls[c].llmCalls = 1 /\ calls[c].writes = 1
        /\ Cardinality(points) = 1

\* C5: when the producer fails, capture ends by throwing the producer's
\* error, the collection is as it was, and the call has neither called
\* store nor written.
C5_ProducerFailure ==
    [][\A c \in Calls :
          (calls[c].pc = "llm" /\ calls'[c].pc = "done") =>
              /\ calls'[c].outcome = "threw"
              /\ calls'[c].error = LlmError
              /\ points' = points
              /\ calls'[c].storeCalls = 0
              /\ calls'[c].writes = 0]_vars

\* The producer of a call has failed while the collection holds a record.
C5_Witness ==
    \E c \in Calls :
        /\ calls[c].pc = "done" /\ calls[c].outcome = "threw"
        /\ calls[c].error = LlmError /\ calls[c].llmCalls = 1
        /\ points # {}

\* C6: in every step, every point that is new is the one point of a capture
\* that missed, whose producer returned and whose upsert was applied, under
\* an id no point had; no point changes; a point leaves only in the delete
\* of cleanup; a hit and the steps of suggest leave the collection alone.
C6_RecordLifecycle ==
    [][/\ \A p \in points' \ points :
             /\ p.id \notin Ids(points)
             /\ points \subseteq points'
             /\ Cardinality(points' \ points) = 1
             /\ \E c \in Calls :
                   /\ calls[c].pc = "upsert" /\ calls[c].llmCalls = 1
                   /\ calls[c].point = p
                   /\ calls'[c].pc = "done" /\ calls'[c].outcome = "returned"
                   /\ calls'[c].result.cached = FALSE
                   /\ calls'[c].writes = 1
       /\ \A c \in Calls :
             (calls[c].pc = "upsert" /\ calls'[c].pc = "done"
                /\ calls'[c].outcome = "returned") => calls[c].point \in points' \ points
       /\ (points \ points' # {}) => (sweep.pc = "delete" /\ sweep'.pc = "idle")
       /\ \A c \in Calls :
             (calls[c].pc = "decide" /\ calls'[c].pc = "done") => points' = points
       /\ (suggestion' # suggestion) => points' = points]_vars

\* A capture has judged its candidate stale and written a record, and the
\* stale record is still there beside the new one.
C6_Witness ==
    \E c \in Calls :
        /\ Miss(c) /\ calls[c].stale
        /\ \E p, q \in points :
              /\ p.id = calls[c].results[1].id
              /\ q.id = calls[c].wrote
              /\ p.id # q.id

\* C7: the delete of a sweep that read the time sweep.now removes exactly
\* the points with expiresAt <= sweep.now.
C7_SweepRemovesUpToNow ==
    [][Delete =>
          points' = {p \in points :
                        ~(Has(p.payload, "expiresAt") /\ p.payload.expiresAt <= sweep.now)}]_vars

\* C8: the response of a hit is the value the producer returned to the call
\* that wrote the matched record.
C8_HitRoundTrip ==
    \A c \in Calls :
        Hit(c) => calls[c].result.response = calls[c].results[1].origin.response

\* C9: no hit returns a record whose expiresAt is at or before the time of
\* the decision.
C9_ExpiredNeverHit ==
    \A c \in Calls : Hit(c) => ~calls[c].expired

\* C10: no call invokes the producer more than once, calls store more than
\* once or has more than one upsert applied.
C10_AtMostOncePerCall ==
    \A c \in Calls :
        calls[c].pc # "idle" =>
            /\ calls[c].llmCalls <= 1
            /\ calls[c].storeCalls <= 1
            /\ calls[c].writes <= 1

\* Two calls for the same prompt and scope, whose searches both found no
\* candidate, have both invoked the producer and both written a record.
C10_Witness ==
    /\ Miss("c1") /\ Miss("c2")
    /\ calls["c1"].options = calls["c2"].options
    /\ calls["c1"].noCandidate /\ calls["c2"].noCandidate
    /\ calls["c1"].llmCalls = 1 /\ calls["c2"].llmCalls = 1
    /\ \E p, q \in points :
          /\ p.id = calls["c1"].wrote /\ q.id = calls["c2"].wrote /\ p.id # q.id
          /\ p.payload.metadata.prompt = q.payload.metadata.prompt

\* C11: the results of a search are points that are in the collection when
\* the server answers it, so a search answered after a point has left does
\* not return it; a hit returns the payload its search read, whatever has
\* happened to the point since.
C11_SweepLookupRace ==
    [][\A c \in Calls :
          /\ (calls[c].pc = "search" /\ calls'[c].pc = "decide") =>
                \A i \in DOMAIN calls'[c].raw :
                    \E p \in points : /\ p.id = calls'[c].raw[i].id
                                      /\ p.payload = calls'[c].raw[i].payload
          /\ (calls[c].pc = "decide" /\ calls'[c].pc = "done") =>
                /\ calls'[c].result.cached
                /\ calls'[c].results[1].id = calls[c].raw[1].id
                /\ calls'[c].result.response = calls[c].raw[1].payload.response]_vars

\* A call has returned as a hit a record that the sweep removed after the
\* call's search.
C11_Witness ==
    \E c \in Calls :
        /\ Hit(c)
        /\ calls[c].results[1].id \notin Ids(points)
        /\ sweep.pc = "idle"

\* C12: a call that ends from its search ends by throwing the error of the
\* search, having invoked no producer and called no store, the collection
\* as it was; a call whose upsert is not applied ends by throwing the error
\* of the upsert, having invoked the producer once and called store once.
C12_StoreFailuresPropagate ==
    [][\A c \in Calls :
          /\ (calls[c].pc = "search" /\ calls'[c].pc = "done") =>
                /\ calls'[c].outcome = "threw"
                /\ calls'[c].error \in {QdrantError, Rejection(collection)}
                /\ Accepts(collection, calls[c].vector) => calls'[c].error = QdrantError
                /\ calls'[c].llmCalls = 0 /\ calls'[c].storeCalls = 0
                /\ calls'[c].writes = 0
                /\ points' = points
          /\ (calls[c].pc = "upsert" /\ calls'[c].pc = "done") =>
                \/ calls'[c].outcome = "returned" /\ calls[c].point \in points'
                \/ /\ calls'[c].outcome = "threw"
                   /\ calls'[c].error = QdrantError
                   /\ calls'[c].llmCalls = 1 /\ calls'[c].storeCalls = 1
                   /\ calls'[c].writes = 0
                   /\ points' = points
          /\ calls[c].pc = "search" => calls'[c].pc \in {"search", "decide", "done"}
          /\ calls[c].pc = "upsert" => calls'[c].pc \in {"upsert", "done"}]_vars

\* One call has failed in its search and another in its store.
C12_Witness ==
    \E c, d \in Calls :
        /\ calls[c].pc = "done" /\ calls[c].outcome = "threw"
        /\ calls[c].error = QdrantError /\ calls[c].llmCalls = 0
        /\ calls[d].pc = "done" /\ calls[d].outcome = "threw"
        /\ calls[d].error = QdrantError
        /\ calls[d].llmCalls = 1 /\ calls[d].storeCalls = 1 /\ calls[d].writes = 0

\* C13: every step that ends the delete of a cleanup ends the cleanup
\* normally; the delete either is applied or, when it fails, is warned
\* about with the collection's points as they were.
C13_SweepBestEffort ==
    [][(sweep.pc = "delete" /\ sweep' # sweep) =>
          /\ sweep'.pc = "idle"
          /\ Has(sweep', "warned") => points' = points
          /\ ~Has(sweep', "warned") => points' = DeleteExpired(points, sweep.now)]_vars

\* A cleanup has failed and returned, and a record it would have removed is
\* still there.
C13_Witness ==
    /\ sweep.pc = "idle" /\ Has(sweep, "warned")
    /\ \E p \in points : Has(p.payload, "expiresAt") /\ p.payload.expiresAt < now

\* C14: every point that has an expiresAt has it after its createdAt.
C14_ExpiresAfterCreated ==
    \A p \in points :
        Has(p.payload, "expiresAt") => p.payload.expiresAt > p.payload.createdAt

LimitOf(query) == IF Has(query, "limit") THEN query.limit ELSE 5
MinSimilarityOf(query) == IF Has(query, "minSimilarity") THEN query.minSimilarity ELSE 70
InBand(query) ==
    {p \in points :
        /\ (Has(query, "tenantId") /\ TruthyStr(query.tenantId)) =>
               p.payload.metadata.tenantId = query.tenantId
        /\ ScoreAtLeast(Score(embed(query.text, DefaultDim), p.vector),
                        MinSimilarityOf(query))}

\* C16: a suggest that returns returns points in scope with similarity >=
\* minSimilarity (default 0.7), all of them when they are at most limit
\* (default 5) and limit of them otherwise, whatever their age or
\* expiresAt; no step of suggest changes the collection, invokes a producer
\* or takes an id.
C16_SuggestUngatedReadOnly ==
    [][/\ (suggestion.pc = "search" /\ suggestion'.pc = "done"
             /\ suggestion'.outcome = "returned") =>
             LET items == suggestion'.items
                 band == InBand(suggestion.query)
             IN  /\ {items[i].id : i \in DOMAIN items} \subseteq Ids(band)
                 /\ Len(items) = Min(LimitOf(suggestion.query), Cardinality(band))
                 /\ \A i, j \in DOMAIN items : i # j => items[i].id # items[j].id
       /\ (suggestion' # suggestion) =>
             /\ points' = points
             /\ calls' = calls
             /\ nextId' = nextId]_vars

\* A suggest with no limit and no minSimilarity has returned a record that
\* is past its expiresAt.
C16_Witness ==
    /\ suggestion.pc = "done" /\ suggestion.outcome = "returned"
    /\ ~Has(suggestion.query, "limit") /\ ~Has(suggestion.query, "minSimilarity")
    /\ \E i \in DOMAIN suggestion.items : \E p \in points :
          /\ p.id = suggestion.items[i].id
          /\ Has(p.payload, "expiresAt") /\ p.payload.expiresAt < now

\* C17: a suggest returns at most limit items, each with score >=
\* minSimilarity, in the order of non-increasing score.
C17_SuggestBounded ==
    (suggestion.pc = "done" /\ suggestion.outcome = "returned") =>
        LET items == suggestion.items
        IN  /\ Len(items) <= LimitOf(suggestion.query)
            /\ \A i \in DOMAIN items :
                  ScoreAtLeast(items[i].score, MinSimilarityOf(suggestion.query))
            /\ \A i, j \in DOMAIN items :
                  i < j => ScoreLeq(items[j].score, items[i].score)

\* A suggest has returned two items, the first with the greater score.
C17_Witness ==
    /\ suggestion.pc = "done" /\ suggestion.outcome = "returned"
    /\ Len(suggestion.items) = 2
    /\ ~ScoreLeq(suggestion.items[1].score, suggestion.items[2].score)

\* C18: a hit of a call with a userId returns a record written by a call
\* with the same userId.
C18_UserScoping ==
    \A c \in Calls :
        (Hit(c) /\ Has(calls[c].options.metadata, "userId")) =>
            /\ Has(calls[c].results[1].origin.options.metadata, "userId")
            /\ calls[c].results[1].origin.options.metadata.userId
                  = calls[c].options.metadata.userId

\* C19: a call whose search is pending on a collection of another vector
\* size than its vector ends in its next step by throwing an error - the
\* server's dimension error, unless the request itself failed - with no
\* producer invoked, no store called and the collection as it was.
C19_DimensionMismatch ==
    [][\A c \in Calls :
          (/\ calls[c].pc = "search"
           /\ collection.exists /\ collection.size # VecLen(calls[c].vector)
           /\ calls'[c] # calls[c]) =>
              /\ calls'[c].pc = "done"
              /\ calls'[c].outcome = "threw"
              /\ calls'[c].error \in {DimensionError, QdrantError}
              /\ calls'[c].llmCalls = 0 /\ calls'[c].storeCalls = 0
              /\ calls'[c].writes = 0
              /\ points' = points]_vars

\* A call has thrown the dimension error, no producer invoked.
C19_Witness ==
    \E c \in Calls :
        /\ calls[c].pc = "done" /\ calls[c].outcome = "threw"
        /\ calls[c].error = DimensionError
        /\ calls[c].llmCalls = 0
        /\ collection.size # DefaultDim

\* C20: the collection is created at most once, by the createCollection of
\* an ensureCollection and with its vectorSize; once there it stays as it
\* is; an ensureCollection that gets past getCollection and createCollection
\* finds it there; and no step of ensureCollection changes a point.
C20_EnsureIdempotent ==
    [][/\ collection.exists => collection' = collection
       /\ collection'.creations <= 1
       /\ (collection' # collection) =>
             /\ ensure.pc = "create"
             /\ collection'.exists /\ collection'.size = ensure.vectorSize
       /\ (ensure'.pc = "indexes") => collection'.exists
       /\ (ensure' # ensure) => points' = points]_vars

\* An ensureCollection with another vectorSize has found the collection
\* there, records in it, and left it as it was created.
C20_Witness ==
    /\ ensure.pc = "indexes"
    /\ collection.exists /\ collection.creations = 1
    /\ ensure.vectorSize # collection.size
    /\ points # {}

(***************************************************************************)
(* LocalEmbedding: what the claims say of a text, stated without the       *)
(* operators of the model.                                                 *)
(***************************************************************************)
WhiteSpace == {9, 10, 11, 12, 13, 32}
FoldCase(ch) == IF ch >= 65 /\ ch <= 90 THEN ch + 32 ELSE ch

\* The words of a text: its maximal runs of characters that are no white
\* space, as <<first, last>>.
WordRuns(text) ==
    LET inWord(k) == k \in DOMAIN text /\ text[k] \notin WhiteSpace
        firsts == {k \in DOMAIN text : inWord(k) /\ ~inWord(k - 1)}
        lasts == {k \in DOMAIN text : inWord(k) /\ ~inWord(k + 1)}
    IN  {<<f, CHOOSE l \in lasts : l >= f /\ \A m \in lasts : m >= f => l <= m>> : f \in firsts}

WordAt(text, r) == [k \in 1..(r[2] - r[1] + 1) |-> FoldCase(text[r[1] + k - 1])]

\* The multiset of the lowercased words of a text.
BagOfWords(text) ==
    LET runs == WordRuns(text)
    IN  [w \in {WordAt(text, r) : r \in runs} |->
            Cardinality({r \in runs : WordAt(text, r) = w})]

RECURSIVE Total(_, _)
Total(f, S) ==
    IF S = {} THEN 0
    ELSE LET i == CHOOSE j \in S : TRUE IN f[i] + Total(f, S \ {i})

DimOf(entry) == embedder[entry.provider].dim

\* C21: every vector embed has returned has the length the instance was
\* constructed with.
C21_EmbedLength ==
    \A i \in DOMAIN history : VecLen(history[i].vector) = DimOf(history[i])

\* Instances of both dimensions have embedded texts with tokens.
C21_Witness ==
    \E i, j \in DOMAIN history :
        /\ DimOf(history[i]) = DefaultDim /\ DimOf(history[j]) = 7
        /\ VecLen(history[i].vector) = DefaultDim /\ VecLen(history[j].vector) = 7
        /\ history[i].vector.norm2 > 0 /\ history[j].vector.norm2 > 0

C23_EmptyTextZeroVector ==
    \A i \in DOMAIN history :
        (\A k \in DOMAIN history[i].text : history[i].text[k] \in WhiteSpace) =>
            /\ DOMAIN history[i].vector.num.nz = {}
            /\ history[i].vector.num.len = DimOf(history[i])
            /\ history[i].vector.norm2 = 0

\* The empty text and a text of a blank, a tab and a newline were embedded.
C23_Witness ==
    \E i, j \in DOMAIN history :
        /\ history[i].text = <<>>
        /\ Len(history[j].text) = 3
        /\ \A k \in DOMAIN history[j].text : history[j].text[k] \in WhiteSpace
        /\ history[j].vector.norm2 = 0

\* The resolved maxAge of a request is zero: its policy says 0, or says
\* nothing and the engine's defaultTTL is 0.
ZeroMaxAge(options) ==
    IF Has(options.policy, "maxAge") THEN options.policy.maxAge = 0 ELSE config.defaultTTL = 0

C25_StaleIffSweepEligible ==
    /\ [](\A p \in points :
             LET m == resolveMaxAge(config, p.origin.options)
             IN  m > 0 => (/\ Has(p.payload, "expiresAt")
                           /\ p.payload.expiresAt = p.payload.createdAt + m * MsPerSec))
    /\ [][\A c \in Calls :
             (/\ calls[c].pc = "decide" /\ calls'[c].pc # "decide"
              /\ Len(calls[c].raw) > 0
              /\ resolveMaxAge(config, calls[c].options) > 0
              /\ resolveMaxAge(config, calls[c].raw[1].origin.options)
                    = resolveMaxAge(config, calls[c].options))
             => LET record == [payload |-> calls[c].raw[1].payload]
                IN  calls'[c].stale <=> (DeleteExpired({record}, now) = {})]_vars

\* C26: a call goes from embed to search, from search to the decision, from
\* the decision either to its return as a hit or to the producer, from the
\* producer to store and from store to its return.  The search is sent with
\* the vector embed returned; the producer is invoked only in the step that
\* follows the search's answer, when there is no candidate or the candidate
\* is stale; store is called only in the step in which the producer returns;
\* a miss returns only in the step in which the upsert is applied; a call
\* that hits has neither invoked the producer nor called store.
C26_StepOrder ==
    /\ [](\A c \in Calls :
             /\ Hit(c) => (/\ calls[c].llmCalls = 0 /\ calls[c].storeCalls = 0
                           /\ calls[c].writes = 0)
             /\ Miss(c) => (/\ calls[c].llmCalls = 1 /\ calls[c].storeCalls = 1
                            /\ calls[c].writes = 1))
    /\ [][\A c \in Calls :
             LET a == calls[c]
                 b == calls'[c]
             IN  /\ a.pc # b.pc =>
                       <<a.pc, b.pc>> \in
                           {<<"idle", "search">>, <<"search", "decide">>, <<"search", "done">>,
                            <<"decide", "done">>, <<"decide", "llm">>, <<"llm", "upsert">>,
                            <<"llm", "done">>, <<"upsert", "done">>, <<"done", "idle">>}
                 /\ (a.pc = "idle" /\ b.pc = "search") =>
                       (/\ b.vector = embed(b.options.prompt, DefaultDim)
                        /\ b.llmCalls = 0 /\ b.storeCalls = 0 /\ b.writes = 0)
                 /\ (a.pc = "search" /\ b.pc = "decide") =>
                       (b.llmCalls = 0 /\ b.storeCalls = 0 /\ b.writes = 0)
                 /\ (a.pc = "search" /\ b.pc = "done") =>
                       (b.outcome = "threw" /\ b.llmCalls = 0 /\ b.storeCalls = 0)
                 /\ (a.pc = "decide" /\ b.pc = "done") =>
                       (/\ b.outcome = "returned" /\ b.result.cached
                        /\ b.llmCalls = 0 /\ b.storeCalls = 0 /\ points' = points)
                 /\ (a.pc = "decide" /\ b.pc = "llm") =>
                       (/\ a.llmCalls = 0 /\ b.llmCalls = 1 /\ b.storeCalls = 0
                        /\ (Len(a.raw) = 0 \/ b.stale))
                 /\ (a.pc = "llm" /\ b.pc = "upsert") =>
                       (b.llmCalls = 1 /\ a.storeCalls = 0 /\ b.storeCalls = 1 /\ b.writes = 0)
                 /\ (a.pc = "llm" /\ b.pc = "done") =>
                       (b.outcome = "threw" /\ b.storeCalls = 0 /\ b.writes = 0)
                 /\ (a.pc = "upsert" /\ b.pc = "done" /\ b.outcome = "returned") =>
                       (/\ b.llmCalls = 1 /\ b.storeCalls = 1 /\ b.writes = 1
                        /\ ~b.result.cached /\ a.point \in points')
                 /\ (a.pc = "upsert" /\ b.pc = "done" /\ b.outcome = "threw") =>
                       (b.writes = 0 /\ points' = points)]_vars

\* Of two calls in flight together one has gone all the way through the
\* producer and store and the other has hit the record the first one wrote.
C26_Witness ==
    \E c, d \in Calls :
        /\ Miss(c) /\ calls[c].llmCalls = 1 /\ calls[c].storeCalls = 1 /\ calls[c].writes = 1
        /\ Hit(d) /\ calls[d].llmCalls = 0 /\ calls[d].storeCalls = 0 /\ calls[d].writes = 0
        /\ calls[d].results[1].id = calls[c].wrote

\* C27: the search of a call that names no tenant (no tenantId, or the empty
\* one) is answered from all the points of the collection, whatever tenant
\* wrote them: it comes back empty only when no point at all reaches the
\* threshold, and otherwise with a point no other point outscores.
C27_NoTenantNoRestriction ==
    [][\A c \in Calls :
          (/\ calls[c].pc = "search" /\ calls'[c].pc = "decide"
           /\ ~TruthyStr(TenantOf(calls[c].options)))
          => LET similar ==
                     {p \in points :
                         ScoreAtLeast(Score(calls[c].vector, p.vector),
                                      resolveThreshold(config, calls[c].options))}
             IN  /\ (Len(calls'[c].raw) = 0) <=> (similar = {})
                 /\ Len(calls'[c].raw) > 0 =>
                       /\ \E p \in similar : p.id = calls'[c].raw[1].id
                       /\ \A p \in similar :
                              ScoreLeq(Score(calls[c].vector, p.vector), calls'[c].raw[1].score)]_vars

\* A call without a tenantId has hit a record written for the tenant acme.
C27_Witness ==
    \E c \in Calls :
        /\ Hit(c)
        /\ ~Has(calls[c].options.metadata, "tenantId")
        /\ TenantOf(calls[c].results[1].origin.options) = "acme"

\* C28: every bucket a token was counted in is an index of the vector,
\* whatever the sign of the token's hash, and the counts add up to the number
\* of tokens of the text: each token added one to one bucket.
C28_BucketsInRange ==
    \A i \in DOMAIN history :
        LET counts == history[i].vector.num.nz
        IN  /\ DOMAIN counts \subseteq 0..(DimOf(history[i]) - 1)
            /\ \A b \in DOMAIN counts : counts[b] \in 1..Len(history[i].text)
            /\ Total(counts, DOMAIN counts) = Cardinality(WordRuns(history[i].text))

\* The token whose hash is -2^31 has been embedded, and a text of three
\* tokens, one of negative hash, on an instance where its tokens have three
\* buckets and on one where two of them share a bucket.
C28_Witness ==
    \E i, j, k \in DOMAIN history :
        /\ history[i].text = TextMinHash
        /\ hashLoop(TextMinHash, 1, 0) = MinInt32
        /\ DOMAIN history[i].vector.num.nz = {bucketOf(TextMinHash, DimOf(history[i]))}
        /\ history[j].text = history[k].text
        /\ Cardinality(WordRuns(history[j].text)) = 3
        /\ \E r \in WordRuns(history[j].text) : hashLoop(WordAt(history[j].text, r), 1, 0) < 0
        /\ Cardinality(DOMAIN history[j].vector.num.nz) = 3
        /\ Cardinality(DOMAIN history[k].vector.num.nz) = 2

\* C29: two texts with the same multiset of lowercased words, embedded on
\* instances of the same dimension, have the same vector.
C29_BagOfWords ==
    \A i, j \in DOMAIN history :
        (/\ DimOf(history[i]) = DimOf(history[j])
         /\ BagOfWords(history[i].text) = BagOfWords(history[j].text))
            => history[i].vector = history[j].vector

\* Two texts that differ in case, in the white space between the words and
\* in the order of the words were embedded to one vector, on each of two
\* instances.
C29_Witness ==
    /\ Len(history) = 3
    /\ history[1].text = PromptAB
    /\ history[2].text = <<98, 32, 9, 32, 97>>
    /\ history[3].text = PromptAB
    /\ history[1].provider = history[2].provider
    /\ history[3].provider # history[2].provider
    /\ BagOfWords(history[1].text) = BagOfWords(history[2].text)
    /\ DimOf(history[1]) = DimOf(history[2]) /\ DimOf(history[2]) = DimOf(history[3])
    /\ history[1].vector = history[2].vector /\ history[2].vector = history[3].vector
    /\ history[1].vector.norm2 = 2

=============================================================================
